---- MODULE Spec2Model ----
(***************************************************************************)
(* The MQTT client of src/mqtt/mqtt.go as a state machine.                 *)
(*                                                                         *)
(* Threads of control, as in the Go code:                                  *)
(*   thread 0          the caller of CreateMQTTClient and Start            *)
(*   thread i >= 1     the goroutine of the i-th ticker retryConnect made  *)
(*   handler e         the connected callback of the e-th connection       *)
(*   lost handler k    the connection-lost callback of the k-th loss       *)
(*   receive path      the transport's goroutine that runs the callback of *)
(*                     a subscription for each inbound message             *)
(*   call j            the goroutine of the j-th topic handler started     *)
(* Stop and Publish are calls of arbitrary callers and are atomic here:    *)
(* each is one call into the transport.                                    *)
(*                                                                         *)
(* The fields connecting, disconnected and connectToken are read and       *)
(* written without any lock (no mutex in mqtt.go), so every read and every *)
(* write of them is a step of its own and the steps interleave freely.     *)
(*                                                                         *)
(* The transport (paho) is the environment.  What is assumed of it:        *)
(*   - Connect() returns a token at once and completes it later;           *)
(*   - a completed attempt on a client that is already connected succeeds  *)
(*     without a connected callback;                                       *)
(*   - a new connection runs the connected callback in its own goroutine,  *)
(*     a lost connection runs the connection-lost callback in its own;     *)
(*   - Disconnect() ends the connection without a connection-lost          *)
(*     callback, and Connect() may be called again after it;               *)
(*   - with a clean session (persistent = FALSE, mqtt.go line 110) the     *)
(*     broker never reports a session present;                             *)
(*   - a Subscribe call registers its callback under its path, and the     *)
(*     receive path runs one callback at a time, in order of arrival.      *)
(***************************************************************************)
EXTENDS Integers, Sequences, FiniteSets, TLC

\* Bounds of the environment.
MaxLost == 1      \* connection losses the transport may report
MaxFail == 1      \* connect attempts the broker may refuse
MaxFailArm == 2   \* the same, where the arming of retry cycles is examined
NumTopics == 2    \* length of the topic list GetTopics returns
MaxMsgs == 2      \* inbound messages the broker may send

\* One more connection than losses; one ticker per loss and per refusal at most.
MaxConn == MaxLost + 1
MaxTickers == MaxLost + MaxFailArm

Threads == 0..MaxTickers
Tickers == 1..MaxTickers
Conns == 1..MaxConn
Losses == 1..MaxLost

\* The ordered topic list of a.GetTopics(m.prefix): each topic has the path
\* it is subscribed under and the handler configured for it.
Topics == [i \in 1..NumTopics |-> [Path |-> i, Handler |-> i]]

\* msg.Topic() and msg.Payload() of an inbound message (line 175): the names
\* a subscription path matches, and the payloads.
TopicNames(path) == {<<path, "a">>, <<path, "b">>}
Payloads == {"on", "off"}

VARIABLES
    cfg,            \* the MQTT struct's configuration fields
    client,         \* m.client: "none" | "built"
    crashed,        \* the process died of a nil dereference
    pc,             \* control point of thread 0 and of each ticker goroutine
    tok,            \* the connect token each thread holds in connect()
    ticker,         \* each time.Ticker: "unused" | "running" | "drain" | "stopped"
    nTickers,       \* tickers created so far
    connecting,     \* m.connecting
    disconnected,   \* m.disconnected
    connectToken,   \* m.connectToken
    status,         \* the transport's connection status
    epoch,          \* connections established so far
    conns,          \* per connection: what the broker reported, what preceded it
    h,              \* per connection: its connectHandler goroutine
    lost,           \* connection losses so far
    lpc,            \* per loss: its connectionLostHandler goroutine
    fails,          \* connect attempts refused so far
    stopCalled,     \* Stop has been called
    pub,            \* the last Publish call: its token and what the caller got
    faults,         \* what the broker may do wrong: refusals, failed Subscribe calls
    bridge          \* inbound messages: the receive path and the topic handlers

vars == <<cfg, client, crashed, pc, tok, ticker, nTickers, connecting, disconnected,
          connectToken, status, epoch, conns, h, lost, lpc, fails, stopCalled, pub,
          faults, bridge>>

\* A *paho.ConnectToken.  st: "nil" (no token), "pending", "ok", "err";
\* sp: the session-present flag of the CONNACK; conn: the connection the
\* attempt established (0: none); by: the thread whose attempt is pending.
NilToken == [st |-> "nil", sp |-> FALSE, conn |-> 0, by |-> 0]
PendingToken(t) == [st |-> "pending", sp |-> FALSE, conn |-> 0, by |-> t]
DoneToken(err, sp, c) == [st |-> IF err THEN "err" ELSE "ok", sp |-> sp, conn |-> c, by |-> 0]

NoConn == [sp |-> FALSE, afterLoss |-> FALSE]
NoHandler == [pc |-> "none", hasSession |-> FALSE, issued |-> <<>>, failed |-> {}]
NoPub == [token |-> "none", returned |-> "none"]

\* No inbound message yet.  inbox: messages that arrived and wait for the
\* receive path; cb: the message whose subscription callback the receive
\* path is running (none or one); taken: the messages the receive path has
\* taken, in order; calls: the handler goroutines started, in order.
NoBridge == [inbox |-> <<>>, cb |-> <<>>, taken |-> <<>>, calls |-> <<>>]

\* initMQTTClientOptions: the error it returns ("" for nil).  An unreadable
\* CA file is skipped (the err of ReadFile is only tested for nil, line 88);
\* a key pair that fails to load is the one error path (lines 95-97).
initMQTTClientOptions(c) ==
    IF c.keyPair = "bad" THEN "error loading client keypair" ELSE ""

\* m.connectToken.SessionPresent() (line 218): the field of whatever token is
\* stored; a token not yet completed has it unset.
SessionPresent(t) == t.sp

\* Line 222 with the persistence test on the wrong side: on a reconnect it
\* subscribes only for a persistent client without a session.
ShouldSubscribeMisplaced(disc, persistent, hasSession) ==
    (~disc) \/ (disc /\ persistent /\ ~hasSession)

\* The condition of line 222.
ShouldSubscribe(disc, persistent, hasSession) ==
    (~disc) \/ (disc /\ ~persistent) \/ (~hasSession)

\* The loop of subscribe() leaving at the first Subscribe call that fails.
RECURSIVE subscribeFromUntilError(_, _, _)
subscribeFromUntilError(i, calls, failing) ==
    IF i > Len(Topics) THEN calls
    ELSE LET call == [Path |-> Topics[i].Path, Handler |-> Topics[i].Handler]
         IN  IF i \in failing
               THEN Append(calls, call)
               ELSE subscribeFromUntilError(i + 1, Append(calls, call), failing)

\* The loop of subscribe() with the callback closing over the range variable
\* t instead of the copy of line 171: every callback starts the handler of
\* the topic iterated last.
RECURSIVE subscribeFromSharedVar(_, _, _)
subscribeFromSharedVar(i, calls, failing) ==
    IF i > Len(Topics) THEN calls
    ELSE LET call == [Path |-> Topics[i].Path, Handler |-> Topics[Len(Topics)].Handler]
         IN  subscribeFromSharedVar(i + 1, Append(calls, call), failing)

\* subscribe(): the loop of lines 170-179 over the topic list.  Each turn
\* copies the topic (line 171) and makes one Subscribe call with the copy's
\* path and a callback that starts the copy's handler; a call whose token
\* reports an error (i \in failing) is logged (line 177) and the loop goes on.
RECURSIVE subscribeFrom(_, _, _)
subscribeFrom(i, calls, failing) ==
    IF i > Len(Topics) THEN calls
    ELSE LET call == [Path |-> Topics[i].Path, Handler |-> Topics[i].Handler]
         IN  subscribeFrom(i + 1, Append(calls, call), failing)

subscribe(failing) == subscribeFrom(1, <<>>, failing)

\* The Subscribe calls the broker may fail in one run of subscribe().
FailingSets == IF faults.subscribe THEN SUBSET (1..NumTopics) ELSE {{}}

\* What the broker may answer for session present (SetCleanSession, line 110).
SessionPresentValues == IF cfg.persistent THEN BOOLEAN ELSE {FALSE}

\* The tickers that still tick: created by line 204 and not stopped by line 209.
ArmedTickers == {i \in Tickers : ticker[i] = "running"}

InitCommon ==
    /\ client = "none"
    /\ crashed = FALSE
    /\ pc = [t \in Threads |-> IF t = 0 THEN "create" ELSE "unused"]
    /\ tok = [t \in Threads |-> NilToken]
    /\ ticker = [i \in Tickers |-> "unused"]
    /\ nTickers = 0
    /\ connecting = FALSE
    /\ disconnected = FALSE
    /\ connectToken = NilToken
    /\ status = "disconnected"
    /\ epoch = 0
    /\ conns = [e \in Conns |-> NoConn]
    /\ h = [e \in Conns |-> NoHandler]
    /\ lost = 0
    /\ lpc = [k \in Losses |-> "none"]
    /\ fails = 0
    /\ stopCalled = FALSE
    /\ pub = NoPub
    /\ bridge = NoBridge

\* Before CreateMQTTClient, for a configuration that names no TLS files.
Init ==
    /\ InitCommon
    /\ cfg \in [persistent : BOOLEAN, caCert : {"none"}, keyPair : {"none"}]
    /\ faults = [refusals |-> MaxFail, subscribe |-> FALSE]

\* The same, with a broker that refuses more connect attempts.
InitArm ==
    /\ InitCommon
    /\ cfg \in [persistent : BOOLEAN, caCert : {"none"}, keyPair : {"none"}]
    /\ faults = [refusals |-> MaxFailArm, subscribe |-> FALSE]

\* The same as Init, with a broker that may fail Subscribe calls.
InitSub ==
    /\ InitCommon
    /\ cfg \in [persistent : BOOLEAN, caCert : {"none"}, keyPair : {"none"}]
    /\ faults = [refusals |-> MaxFail, subscribe |-> TRUE]

\* Before CreateMQTTClient, for every transport-security configuration: each
\* file is not configured ("none"), loads ("ok") or fails to load ("bad").
InitTLS ==
    /\ InitCommon
    /\ cfg \in [persistent : BOOLEAN, caCert : {"none", "ok", "bad"},
                keyPair : {"none", "ok", "bad"}]
    /\ faults = [refusals |-> MaxFail, subscribe |-> FALSE]

\* CreateMQTTClient (lines 121-151): the error of initMQTTClientOptions is
\* logged and paho.NewClient is called with the nil options it returned, which
\* dereferences them: the process dies.
CreateMQTTClient ==
    /\ ~crashed
    /\ pc[0] = "create"
    /\ IF initMQTTClientOptions(cfg) = ""
         THEN /\ client' = "built"
              /\ pc' = [pc EXCEPT ![0] = "start"]
              /\ UNCHANGED crashed
         ELSE /\ crashed' = TRUE
              /\ pc' = [pc EXCEPT ![0] = "panic"]
              /\ UNCHANGED client
    /\ UNCHANGED <<cfg, tok, ticker, nTickers, connecting, disconnected, connectToken,
                   status, epoch, conns, h, lost, lpc, fails, stopCalled, pub, faults,
                   bridge>>

\* m.client.Connect() of line 189, before its result is stored.
connectCall(t) ==
    /\ tok' = [tok EXCEPT ![t] = PendingToken(t)]
    /\ pc' = [pc EXCEPT ![t] = "store"]

\* Start (lines 154-159): m.connect(), up to the Connect() call.
Start ==
    /\ ~crashed
    /\ pc[0] = "start"
    /\ client = "built"
    /\ connectCall(0)
    /\ UNCHANGED <<cfg, client, crashed, ticker, nTickers, connecting, disconnected,
                   connectToken, status, epoch, conns, h, lost, lpc, fails, stopCalled, pub,
                   faults, bridge>>

\* One tick of ticker i (line 206) and the Connect() call of m.connect().
\* A stopped ticker may still deliver the one tick its channel buffers.
Tick(i) ==
    /\ ~crashed
    /\ pc[i] = "idle"
    /\ ticker[i] \in {"running", "drain"}
    /\ ticker' = [ticker EXCEPT ![i] = IF @ = "drain" THEN "stopped" ELSE @]
    /\ connectCall(i)
    /\ UNCHANGED <<cfg, client, crashed, nTickers, connecting, disconnected, connectToken,
                   status, epoch, conns, h, lost, lpc, fails, stopCalled, pub, faults,
                   bridge>>

\* The assignment of line 189: m.connectToken = the token Connect() returned.
connectStore(t) ==
    /\ ~crashed
    /\ pc[t] = "store"
    /\ connectToken' = tok[t]
    /\ pc' = [pc EXCEPT ![t] = "wait"]
    /\ UNCHANGED <<cfg, client, crashed, tok, ticker, nTickers, connecting, disconnected,
                   status, epoch, conns, h, lost, lpc, fails, stopCalled, pub, faults,
                   bridge>>

\* The transport completes the attempt of thread t with token d.
Complete(t, d) ==
    /\ tok' = [tok EXCEPT ![t] = d]
    /\ connectToken' = IF connectToken = PendingToken(t) THEN d ELSE connectToken

\* The attempt of thread t succeeds: a new connection, whose connected
\* callback starts in its own goroutine.
TransportConnected(t) ==
    /\ ~crashed
    /\ tok[t].st = "pending"
    /\ status = "disconnected"
    /\ epoch < MaxConn
    /\ \E sp \in SessionPresentValues :
         /\ Complete(t, DoneToken(FALSE, sp, epoch + 1))
         /\ conns' = [conns EXCEPT ![epoch + 1] =
                        [sp |-> sp, afterLoss |-> lost > 0]]
    /\ status' = "connected"
    /\ epoch' = epoch + 1
    /\ h' = [h EXCEPT ![epoch + 1].pc = "token"]
    /\ UNCHANGED <<cfg, client, crashed, pc, ticker, nTickers, connecting, disconnected,
                   lost, lpc, fails, stopCalled, pub, faults, bridge>>

\* The attempt of thread t finds the client connected already.
TransportAlreadyConnected(t) ==
    /\ ~crashed
    /\ tok[t].st = "pending"
    /\ status = "connected"
    /\ Complete(t, DoneToken(FALSE, FALSE, 0))
    /\ UNCHANGED <<cfg, client, crashed, pc, ticker, nTickers, connecting, disconnected,
                   status, epoch, conns, h, lost, lpc, fails, stopCalled, pub, faults,
                   bridge>>

\* The attempt of thread t is refused or times out.
TransportRefused(t) ==
    /\ ~crashed
    /\ tok[t].st = "pending"
    /\ status = "disconnected"
    /\ fails < faults.refusals
    /\ fails' = fails + 1
    /\ Complete(t, DoneToken(TRUE, FALSE, 0))
    /\ UNCHANGED <<cfg, client, crashed, pc, ticker, nTickers, connecting, disconnected,
                   status, epoch, conns, h, lost, lpc, stopCalled, pub, faults, bridge>>

\* Where a thread goes when connect() returns.
AfterConnect(t) == IF t = 0 THEN "done" ELSE "isconn"

\* Lines 190-191 with the test of line 191 inverted (if m.connecting).
connectCheckInverted(t) ==
    /\ ~crashed
    /\ pc[t] = "wait"
    /\ tok[t].st \in {"ok", "err"}
    /\ pc' = [pc EXCEPT ![t] =
                IF tok[t].st = "err" /\ connecting THEN "arm" ELSE AfterConnect(t)]
    /\ tok' = [tok EXCEPT ![t] = NilToken]
    /\ UNCHANGED <<cfg, client, crashed, ticker, nTickers, connecting, disconnected,
                   connectToken, status, epoch, conns, h, lost, lpc, fails, stopCalled, pub,
                   faults, bridge>>

\* Lines 190-191 without the Wait(): connect() goes on as soon as the token
\* is stored and finds no error in a token that is not completed yet.
connectCheckNoWait(t) ==
    /\ ~crashed
    /\ pc[t] = "wait"
    /\ pc' = [pc EXCEPT ![t] =
                IF tok[t].st = "err" /\ ~connecting THEN "arm" ELSE AfterConnect(t)]
    /\ tok' = [tok EXCEPT ![t] = IF @.st = "pending" THEN @ ELSE NilToken]
    /\ UNCHANGED <<cfg, client, crashed, ticker, nTickers, connecting, disconnected,
                   connectToken, status, epoch, conns, h, lost, lpc, fails, stopCalled, pub,
                   faults, bridge>>

\* Lines 190-191: Wait() has returned; on an error m.connecting is read.
connectCheck(t) ==
    /\ ~crashed
    /\ pc[t] = "wait"
    /\ tok[t].st \in {"ok", "err"}
    /\ pc' = [pc EXCEPT ![t] =
                IF tok[t].st = "err" /\ ~connecting THEN "arm" ELSE AfterConnect(t)]
    /\ tok' = [tok EXCEPT ![t] = NilToken]
    /\ UNCHANGED <<cfg, client, crashed, ticker, nTickers, connecting, disconnected,
                   connectToken, status, epoch, conns, h, lost, lpc, fails, stopCalled, pub,
                   faults, bridge>>

\* retryConnect (lines 201-214): set the flag, start a ticker and its goroutine.
retryConnect ==
    /\ connecting' = TRUE
    /\ nTickers' = nTickers + 1
    /\ ticker' = [ticker EXCEPT ![nTickers + 1] = "running"]

\* Line 193: the failure path of connect() arms a retry cycle.
connectArm(t) ==
    /\ ~crashed
    /\ pc[t] = "arm"
    /\ retryConnect
    /\ pc' = [pc EXCEPT ![t] = AfterConnect(t), ![nTickers + 1] = "idle"]
    /\ UNCHANGED <<cfg, client, crashed, tok, disconnected, connectToken, status, epoch,
                   conns, h, lost, lpc, fails, stopCalled, pub, faults, bridge>>

\* Line 208: m.client.IsConnected().
tickIsConnected(i) ==
    /\ ~crashed
    /\ pc[i] = "isconn"
    /\ pc' = [pc EXCEPT ![i] = IF status = "connected" THEN "disarm" ELSE "idle"]
    /\ UNCHANGED <<cfg, client, crashed, tok, ticker, nTickers, connecting, disconnected,
                   connectToken, status, epoch, conns, h, lost, lpc, fails, stopCalled, pub,
                   faults, bridge>>

\* Lines 209-210: ticker.Stop() and m.connecting = false.  Stop does not
\* close the channel: a tick already buffered is still received.
tickDisarm(i) ==
    /\ ~crashed
    /\ pc[i] = "disarm"
    /\ \E s \in {"stopped", "drain"} :
         /\ (s = "drain") => ticker[i] = "running"
         /\ ticker' = [ticker EXCEPT ![i] = s]
    /\ connecting' = FALSE
    /\ pc' = [pc EXCEPT ![i] = "idle"]
    /\ UNCHANGED <<cfg, client, crashed, tok, nTickers, disconnected, connectToken, status,
                   epoch, conns, h, lost, lpc, fails, stopCalled, pub, faults, bridge>>

\* The transport loses the connection (lines 115, 230): the connection-lost
\* callback starts in its own goroutine.
TransportLost ==
    /\ ~crashed
    /\ status = "connected"
    /\ lost < MaxLost
    /\ status' = "disconnected"
    /\ lost' = lost + 1
    /\ lpc' = [lpc EXCEPT ![lost + 1] = "mark"]
    /\ UNCHANGED <<cfg, client, crashed, pc, tok, ticker, nTickers, connecting,
                   disconnected, connectToken, epoch, conns, h, fails, stopCalled, pub,
                   faults, bridge>>

\* connectionLostHandler, line 232: m.disconnected = true.
connectionLostHandlerMark(k) ==
    /\ ~crashed
    /\ lpc[k] = "mark"
    /\ disconnected' = TRUE
    /\ lpc' = [lpc EXCEPT ![k] = "arm"]
    /\ UNCHANGED <<cfg, client, crashed, pc, tok, ticker, nTickers, connecting,
                   connectToken, status, epoch, conns, h, lost, fails, stopCalled, pub,
                   faults, bridge>>

\* Line 233 guarded the way line 191 guards connect(): if !m.connecting.
connectionLostHandlerArmGuarded(k) ==
    /\ ~crashed
    /\ lpc[k] = "arm"
    /\ IF connecting
         THEN UNCHANGED <<connecting, nTickers, ticker, pc>>
         ELSE retryConnect /\ pc' = [pc EXCEPT ![nTickers + 1] = "idle"]
    /\ lpc' = [lpc EXCEPT ![k] = "done"]
    /\ UNCHANGED <<cfg, client, crashed, tok, disconnected, connectToken, status, epoch,
                   conns, h, lost, fails, stopCalled, pub, faults, bridge>>

\* connectionLostHandler, line 233: m.retryConnect(), whatever m.connecting is.
connectionLostHandlerArm(k) ==
    /\ ~crashed
    /\ lpc[k] = "arm"
    /\ retryConnect
    /\ pc' = [pc EXCEPT ![nTickers + 1] = "idle"]
    /\ lpc' = [lpc EXCEPT ![k] = "done"]
    /\ UNCHANGED <<cfg, client, crashed, tok, disconnected, connectToken, status, epoch,
                   conns, h, lost, fails, stopCalled, pub, faults, bridge>>

\* connectHandler, line 218: hasSession := m.connectToken.SessionPresent().
\* A nil m.connectToken is a nil pointer dereference.
connectHandlerToken(e) ==
    /\ ~crashed
    /\ h[e].pc = "token"
    /\ IF connectToken.st = "nil"
         THEN /\ crashed' = TRUE
              /\ h' = [h EXCEPT ![e].pc = "panic"]
         ELSE /\ h' = [h EXCEPT ![e].pc = "decide",
                                ![e].hasSession = SessionPresent(connectToken)]
              /\ UNCHANGED crashed
    /\ UNCHANGED <<cfg, client, pc, tok, ticker, nTickers, connecting, disconnected,
                   connectToken, status, epoch, conns, lost, lpc, fails, stopCalled, pub,
                   faults, bridge>>

\* connectHandler, lines 222-224: the restoration decision and subscribe().
connectHandlerSubscribe(e) ==
    /\ ~crashed
    /\ h[e].pc = "decide"
    /\ \E failing \in FailingSets :
         h' = [h EXCEPT ![e] =
                  IF ShouldSubscribe(disconnected, cfg.persistent, h[e].hasSession)
                    THEN [pc |-> "clear", hasSession |-> FALSE,
                          issued |-> subscribe(failing), failed |-> failing]
                    ELSE [pc |-> "clear", hasSession |-> FALSE,
                          issued |-> <<>>, failed |-> {}]]
    /\ UNCHANGED <<cfg, client, crashed, pc, tok, ticker, nTickers, connecting,
                   disconnected, connectToken, status, epoch, conns, lost, lpc, fails,
                   stopCalled, pub, faults, bridge>>

\* connectHandler, line 226: m.disconnected = false.
connectHandlerClear(e) ==
    /\ ~crashed
    /\ h[e].pc = "clear"
    /\ disconnected' = FALSE
    /\ h' = [h EXCEPT ![e].pc = "done"]
    /\ UNCHANGED <<cfg, client, crashed, pc, tok, ticker, nTickers, connecting,
                   connectToken, status, epoch, conns, lost, lpc, fails, stopCalled, pub,
                   faults, bridge>>

\* Stop (lines 162-164): m.client.Disconnect(500) and nothing else.
Stop ==
    /\ ~crashed
    /\ client = "built"
    /\ status' = "disconnected"
    /\ stopCalled' = TRUE
    /\ UNCHANGED <<cfg, client, crashed, pc, tok, ticker, nTickers, connecting,
                   disconnected, connectToken, epoch, conns, h, lost, lpc, fails, pub,
                   faults, bridge>>

\* Publish arming the supervisor when its token fails.
PublishRearming ==
    /\ ~crashed
    /\ client = "built"
    /\ \E r \in (IF status = "connected" THEN {"ok", "err"} ELSE {"err"}) :
         /\ pub' = [token |-> r, returned |-> "void"]
         /\ IF r = "err" /\ nTickers < MaxTickers
              THEN retryConnect /\ pc' = [pc EXCEPT ![nTickers + 1] = "idle"]
              ELSE UNCHANGED <<connecting, nTickers, ticker, pc>>
    /\ UNCHANGED <<cfg, client, crashed, tok, disconnected, connectToken, status, epoch,
                   conns, h, lost, lpc, fails, stopCalled, faults, bridge>>

\* Publish (lines 183-186): the token is waited for and dropped; the method
\* has no result.  Without a connection the transport fails the token.
Publish ==
    /\ ~crashed
    /\ client = "built"
    /\ \E r \in (IF status = "connected" THEN {"ok", "err"} ELSE {"err"}) :
         pub' = [token |-> r, returned |-> "void"]
    /\ UNCHANGED <<cfg, client, crashed, pc, tok, ticker, nTickers, connecting,
                   disconnected, connectToken, status, epoch, conns, h, lost, lpc, fails,
                   stopCalled, faults, bridge>>

\* The routes of the transport's router: the path and the callback of every
\* Subscribe call made so far (a later call for a path replaces the earlier).
Routes == UNION {{h[e].issued[j] : j \in DOMAIN h[e].issued} : e \in Conns}

\* The broker sends a message on a subscription of the connected client.
Arrive ==
    /\ ~crashed
    /\ status = "connected"
    /\ Len(bridge.taken) + Len(bridge.inbox) < MaxMsgs
    /\ \E r \in Routes : \E name \in TopicNames(r.Path) : \E payload \in Payloads :
         bridge' = [bridge EXCEPT !.inbox =
                       Append(@, [Path |-> r.Path, Topic |-> name, Payload |-> payload])]
    /\ UNCHANGED <<cfg, client, crashed, pc, tok, ticker, nTickers, connecting,
                   disconnected, connectToken, status, epoch, conns, h, lost, lpc, fails,
                   stopCalled, pub, faults>>

\* The receive path of the transport takes the next message and calls the
\* callback of its subscription; it takes no other message until the callback
\* has returned.
Receive ==
    /\ ~crashed
    /\ bridge.cb = <<>>
    /\ bridge.inbox # <<>>
    /\ bridge' = [bridge EXCEPT !.inbox = Tail(@),
                                !.cb = <<Head(bridge.inbox)>>,
                                !.taken = Append(@, Head(bridge.inbox))]
    /\ UNCHANGED <<cfg, client, crashed, pc, tok, ticker, nTickers, connecting,
                   disconnected, connectToken, status, epoch, conns, h, lost, lpc, fails,
                   stopCalled, pub, faults>>

\* The callback of lines 174-176 calling topic.Handler itself, without go: it
\* starts the handler and returns only once the handler has returned.
dispatchInline ==
    /\ ~crashed
    /\ bridge.cb # <<>>
    /\ IF Len(bridge.calls) < Len(bridge.taken)
         THEN \E r \in Routes :
                /\ r.Path = bridge.cb[1].Path
                /\ bridge' = [bridge EXCEPT !.calls =
                       Append(@, [Handler |-> r.Handler, Topic |-> bridge.cb[1].Topic,
                                  Payload |-> bridge.cb[1].Payload, st |-> "running"])]
         ELSE /\ bridge.calls[Len(bridge.calls)].st = "returned"
              /\ bridge' = [bridge EXCEPT !.cb = <<>>]
    /\ UNCHANGED <<cfg, client, crashed, pc, tok, ticker, nTickers, connecting,
                   disconnected, connectToken, status, epoch, conns, h, lost, lpc, fails,
                   stopCalled, pub, faults>>

\* The callback of lines 174-176: go topic.Handler(m.api, m.prefix,
\* msg.Topic(), msg.Payload()).  The handler runs in a goroutine of its own
\* and the callback returns at once.
dispatch ==
    /\ ~crashed
    /\ bridge.cb # <<>>
    /\ \E r \in Routes :
         /\ r.Path = bridge.cb[1].Path
         /\ bridge' = [bridge EXCEPT !.cb = <<>>,
                                     !.calls =
                       Append(@, [Handler |-> r.Handler, Topic |-> bridge.cb[1].Topic,
                                  Payload |-> bridge.cb[1].Payload, st |-> "running"])]
    /\ UNCHANGED <<cfg, client, crashed, pc, tok, ticker, nTickers, connecting,
                   disconnected, connectToken, status, epoch, conns, h, lost, lpc, fails,
                   stopCalled, pub, faults>>

\* A topic handler returns.  Nothing obliges it to: it may block for ever.
handlerReturn(j) ==
    /\ ~crashed
    /\ j \in DOMAIN bridge.calls
    /\ bridge.calls[j].st = "running"
    /\ bridge' = [bridge EXCEPT !.calls[j].st = "returned"]
    /\ UNCHANGED <<cfg, client, crashed, pc, tok, ticker, nTickers, connecting,
                   disconnected, connectToken, status, epoch, conns, h, lost, lpc, fails,
                   stopCalled, pub, faults>>

\* Every step of the client and of the transport, but for the two calls a
\* caller may make at any time, Stop and Publish.
Run ==
    \/ CreateMQTTClient
    \/ Start
    \/ \E i \in Tickers : Tick(i) \/ tickIsConnected(i) \/ tickDisarm(i)
    \/ \E t \in Threads :
         \/ connectStore(t) \/ connectCheck(t) \/ connectArm(t)
         \/ TransportConnected(t) \/ TransportAlreadyConnected(t) \/ TransportRefused(t)
    \/ TransportLost
    \/ \E k \in Losses : connectionLostHandlerMark(k) \/ connectionLostHandlerArm(k)
    \/ \E e \in Conns :
         connectHandlerToken(e) \/ connectHandlerSubscribe(e) \/ connectHandlerClear(e)

\* Every action is guarded by ~crashed: a crashed process takes no step.
Next == Run \/ Stop

Spec == Init /\ [][Next]_vars

NextAPI == Run \/ Stop \/ Publish

SpecAPI == Init /\ [][NextAPI]_vars

NextRun == Run

SpecRun == Init /\ [][NextRun]_vars

\* Every transport-security configuration, Stop never called.
SpecTLS == InitTLS /\ [][NextRun]_vars

\* Stop never called, a broker that refuses more connect attempts.
NextArm == Run

SpecArm == InitArm /\ [][NextArm]_vars

\* Stop never called, a broker that may fail Subscribe calls.
NextSub == Run

SpecSub == InitSub /\ [][NextSub]_vars

\* The first connection and the inbound messages on it: the broker accepts
\* the connect attempt of Start and the connection stays up.
NextBridge ==
    \/ CreateMQTTClient
    \/ Start
    \/ connectStore(0) \/ TransportConnected(0) \/ connectCheck(0)
    \/ connectHandlerToken(1) \/ connectHandlerSubscribe(1) \/ connectHandlerClear(1)
    \/ Arrive
    \/ Receive
    \/ dispatch
    \/ \E j \in 1..MaxMsgs : handlerReturn(j)

SpecBridge == Init /\ [][NextBridge]_vars

\* The receive path runs when it can and a goroutine started with go gets
\* to run; a handler need never return and the broker need never send.
ReceivePath == Receive \/ dispatch

SpecBridgeLive == Init /\ [][NextBridge]_vars /\ WF_vars(ReceivePath)

\* The steps the Go scheduler, the ticker and the transport take on their
\* own: every step but a connection loss, which the network may spare.
Progress ==
    \/ CreateMQTTClient
    \/ Start
    \/ \E i \in Tickers : Tick(i) \/ tickIsConnected(i) \/ tickDisarm(i)
    \/ \E t \in Threads :
         \/ connectStore(t) \/ connectCheck(t) \/ connectArm(t)
         \/ TransportConnected(t) \/ TransportAlreadyConnected(t) \/ TransportRefused(t)
    \/ \E k \in Losses : connectionLostHandlerMark(k) \/ connectionLostHandlerArm(k)
    \/ \E e \in Conns :
         connectHandlerToken(e) \/ connectHandlerSubscribe(e) \/ connectHandlerClear(e)

\* Stop never called; goroutines, tickers and pending attempts make progress;
\* the broker refuses MaxFail attempts at most and accepts from then on.
SpecLive == Init /\ [][NextRun]_vars /\ WF_vars(Progress)

(***************************************************************************)
(* The claims.                                                             *)
(***************************************************************************)

Decided(e) == h[e].pc \in {"clear", "done"}
LostHandlersDone == \A k \in Losses : k <= lost => lpc[k] = "done"

\* C1: at most one retry ticker is running per client in every reachable
\* state, whatever connection-lost callbacks arrive while one is running.
C1_AtMostOneRetryCycle == Cardinality(ArmedTickers) <= 1

\* C2: Stop cancels a pending retry timer at once (no ticker is running when
\* Stop has returned) and no retry tick issues a connect attempt after Stop.
C2_StopCancelsRetry ==
    [][/\ (~stopCalled /\ stopCalled') => ArmedTickers' = {}
       /\ stopCalled => \A i \in Tickers : ~(pc[i] = "idle" /\ pc'[i] = "store")]_vars

\* C3: with persistence enabled, the connected callback of a connection that
\* follows a loss and for which the broker reported a session present issues
\* no subscribe call.
C3_SkipWhenSessionPresent ==
    \A e \in Conns :
        (cfg.persistent /\ conns[e].afterLoss /\ conns[e].sp /\ Decided(e))
            => h[e].issued = <<>>

\* C4: with persistence disabled, the connected callback of every connection
\* that follows a loss issues one subscribe call per topic, in list order.
C4_ResubscribeWithoutPersistence ==
    \A e \in Conns :
        (~cfg.persistent /\ conns[e].afterLoss /\ Decided(e)) => h[e].issued = Topics

C4_Witness ==
    \E e \in Conns :
        /\ ~cfg.persistent /\ conns[e].afterLoss /\ h[e].pc = "done"
        /\ Len(h[e].issued) = NumTopics

\* C5: with persistence enabled, the connected callback of a connection that
\* follows a loss and for which the broker reported no session issues a
\* subscribe call for every topic.
C5_ResubscribeWhenNoSession ==
    \A e \in Conns :
        (cfg.persistent /\ conns[e].afterLoss /\ ~conns[e].sp /\ Decided(e))
            => h[e].issued = Topics

\* C6: the connected callback of the first connection after Start issues a
\* subscribe call for every topic, whatever persistence and session present.
C6_FirstConnectSubscribes ==
    (~conns[1].afterLoss /\ Decided(1)) => h[1].issued = Topics

C8_LossRearms ==
    (/\ ~stopCalled /\ ~crashed /\ lost > 0
     /\ status = "disconnected" /\ LostHandlersDone) => ArmedTickers # {}

C8_Witness ==
    /\ ~stopCalled /\ ~crashed /\ lost > 0 /\ status = "disconnected"
    /\ LostHandlersDone
    /\ ArmedTickers # {}

C10_BadTLSConfigIsFatal ==
    (cfg.caCert = "bad" \/ cfg.keyPair = "bad") =>
        (client = "none" /\ pc[0] \in {"create", "panic"})

\* C11: Stopped is terminal: once Stop has been called the client is never
\* connected again.
C11_StoppedIsTerminal == stopCalled => status # "connected"

\* C12: a Subscribe call that fails does not keep the later topics from
\* getting their Subscribe calls, starts no retry cycle and changes neither
\* the connection state nor the flags nor any thread's position.
C12_SubscribeFailureIsolated ==
    [][\A e \in Conns :
          (h[e].pc = "decide" /\ h'[e].pc = "clear" /\ h'[e].failed # {}) =>
              /\ h'[e].issued = Topics
              /\ UNCHANGED <<connecting, ticker, nTickers, status, disconnected, pc>>]_vars

C12_Witness ==
    \E e \in Conns :
        /\ h[e].pc \in {"clear", "done"}
        /\ 1 \in h[e].failed
        /\ Len(h[e].issued) = NumTopics
        /\ status = "connected" /\ ArmedTickers = {} /\ ~connecting

\* C13: the receive path is never held up by a topic handler: every inbound
\* message that has arrived is handed to a handler goroutine, whether or not
\* the handlers started before it ever return.
C13_DispatchNeverBlocks ==
    \A n \in 1..MaxMsgs :
        (Len(bridge.taken) + Len(bridge.inbox) >= n) ~> (Len(bridge.calls) >= n)

C13_Witness ==
    /\ Len(bridge.calls) = MaxMsgs
    /\ \A j \in DOMAIN bridge.calls : bridge.calls[j].st = "running"
    /\ bridge.cb = <<>>

\* C14: the record of a disconnect is never lost: once the connection-lost
\* callback of the loss before connection e has set m.disconnected, the flag
\* is still set when the connected callback of connection e takes its
\* decision.
C14_DisconnectRecordKept ==
    [][\A e \in Conns :
          (/\ e >= 2
           /\ lpc[e - 1] \in {"arm", "done"}
           /\ h[e].pc = "decide" /\ h'[e].pc = "clear") => disconnected]_vars

\* C15: when a retry tick has made the connection, the retry cycle is
\* disarmed (no ticker running, m.connecting cleared) before the connected
\* callback of that connection decides on restoration and subscribes.
C15_DisarmBeforeRestore ==
    [][\A e \in Conns :
          (/\ h[e].pc = "decide" /\ h'[e].pc = "clear"
           /\ (e >= 2 \/ fails >= 1)
           /\ status = "connected" /\ epoch = e /\ lost = e - 1)
              => (ArmedTickers = {} /\ ~connecting)]_vars

\* C16: the token the connected callback of connection e reads for session
\* present is set and is the token of the attempt that made connection e.
C16_TokenOfOwnAttempt ==
    [][\A e \in Conns :
          (h[e].pc = "token" /\ h'[e].pc # "token")
              => (connectToken.st = "ok" /\ connectToken.conn = e)]_vars

\* C17: the failure path of connect() never starts a retry cycle while one
\* is active: the step of line 193 taken with a ticker running creates no
\* further ticker.
C17_FailureArmsOnce ==
    [][(/\ ArmedTickers # {}
        /\ \E t \in Threads : pc[t] = "arm" /\ pc'[t] # "arm")
            => nTickers' = nTickers]_vars

\* C18 as stated: Start does not wait for the result of the initial connect:
\* with the request issued and stored, Start can go on and return whether or
\* not the attempt has completed.
C18_StartDoesNotWait == (pc[0] = "wait") => ENABLED connectCheck(0)

\* C18 as amended: Start returns only when its connect attempt has completed:
\* by then a connection has been established, or an attempt has been refused
\* and a retry cycle has been armed.
C18_StartWaitsForResult ==
    (pc[0] = "done") => (epoch >= 1 \/ (fails >= 1 /\ nTickers >= 1))

C18_Witness == pc[0] = "done" /\ epoch = 0 /\ fails >= 1 /\ connecting /\ ArmedTickers # {}

\* The handler configured for the topic subscribed under a path.
HandlerOf(path) == Topics[CHOOSE i \in DOMAIN Topics : Topics[i].Path = path].Handler

\* C19: each inbound message on the subscription of a topic starts exactly
\* one handler, the handler configured for that topic, with the topic name
\* and the payload of the message unchanged.
C19_OwnHandlerOnce ==
    /\ Len(bridge.calls) = Len(bridge.taken) - Len(bridge.cb)
    /\ \A j \in DOMAIN bridge.calls :
          /\ bridge.calls[j].Handler = HandlerOf(bridge.taken[j].Path)
          /\ bridge.calls[j].Topic = bridge.taken[j].Topic
          /\ bridge.calls[j].Payload = bridge.taken[j].Payload

C19_Witness ==
    /\ Len(bridge.calls) = MaxMsgs
    /\ bridge.calls[1].Handler = Topics[1].Handler
    /\ bridge.calls[1].Payload # bridge.calls[MaxMsgs].Payload
    /\ bridge.calls[MaxMsgs].Handler = Topics[NumTopics].Handler

\* C20: m.connecting mirrors the supervisor: the flag is set exactly when a
\* retry ticker is running.
C20_FlagMirrorsTicker == connecting <=> (ArmedTickers # {})

====
